---- MODULE Spec2Model ----
(***************************************************************************)
(* Model of the duration rolling file writer (DurationRollingFile) of      *)
(* logit: one writer object, used by several goroutines, over a small      *)
(* file system.  Time is counted in ticks of half a second.  Beside it,    *)
(* the default name generator (nextFilename) and the size rolling writer,  *)
(* each under a specification of its own.                                  *)
(***************************************************************************)
EXTENDS Integers, Sequences, FiniteSets, TLC

\* ---------------------------------------------------------------- bounds
NumThreads == 2        \* goroutines that call the writer
MaxTime == 3           \* the clock runs from 0 to MaxTime ticks
MaxDuration == 2       \* durations 0..MaxDuration are offered to the constructor
MaxCalls == 3          \* calls of Write, Close and SetNameGenerator in one run
PayloadLen == 1        \* every payload is PayloadLen bytes long
RandRange == 1         \* the random suffix is drawn from 0..RandRange-1
MaxLiveCalls == 2      \* calls in one run where termination is checked
MaxLimit == 3          \* size limits 1..MaxLimit are offered to the constructor
MaxLen == 2            \* the size rolling writer is given 1..MaxLen bytes

\* ---------------------------------------------------------------- constants
TicksPerSecond == 2
\* minDuration = 1 * time.Second
minDuration == 1 * TicksPerSecond

Threads == 1..NumThreads
Nil == 0
\* the zero time.Time: further in the past than any duration reaches
ZeroTime == 0 - (MaxDuration + 2)
NoTime == ZeroTime - 1
Generators == {"default", "custom"}

VARIABLES
  st,             \* "new" before construction, "ready", or "panicked"
  file,           \* drf.file: Nil or the index of a handle
  directory,      \* drf.directory
  lastTime,       \* drf.lastTime
  duration,       \* drf.duration
  nameGenerator,  \* drf.nameGenerator
  mu,             \* drf.mu: Nil or the goroutine holding it
  clock,          \* what time.Now() returns
  handles,        \* every *os.File CreateFileOf returned, in order
  fs,             \* the file system: path -> the records written to it
  pc,             \* where each goroutine is in its call
  call,           \* each goroutine's call in progress
  calls,          \* calls that have taken the lock so far
  ret,            \* the call that returned last, with what it returned
  failedAt,       \* when CreateFileOf last failed, NoTime once it succeeded again
  made,           \* the names nextFilename has produced, each with its inputs
  srf             \* the size rolling writer, and its last Write

\* what lies outside the duration rolling writer
aux == <<made, srf>>

vars == <<st, file, directory, lastTime, duration, nameGenerator, mu, clock,
          handles, fs, pc, call, calls, ret, failedAt, aux>>

writer == <<file, directory, lastTime, duration, nameGenerator>>

\* a call in progress: its arguments and locals (op, gen, now, newFile), and
\* what it found when it made its rotation check
NoCall == [op |-> "none", id |-> 0, gen |-> "default", now |-> 0,
           attempted |-> FALSE, failed |-> FALSE, newFile |-> Nil,
           before |-> Nil, openBefore |-> FALSE, lastBefore |-> ZeroTime,
           retryOf |-> NoTime, checked |-> Nil, closeErr |-> "none"]

\* a returned call: n and err are what the caller got, hn and herr what the
\* file handle h reported, closeErr what closing the previous handle
\* reported if the call rotated
NoRet == [op |-> "none", id |-> 0, attempted |-> FALSE, failed |-> FALSE,
          before |-> Nil, h |-> Nil, n |-> 0, err |-> "nil", hn |-> 0, herr |-> "nil",
          closeErr |-> "none"]

\* calls begun: those that hold or held the lock, and those waiting for it
\* the size rolling writer before construction.  file is Nil or the number
\* of the file in use, opened counts the files opened, requested the bytes
\* the Writes since the last opening asked for, whole tells that each of
\* them was written whole; last is the last Write: its length, what it
\* found, what it did, what it returned
NoSizeWrite == [len |-> 0, before |-> Nil, size |-> 0, requested |-> 0,
                whole |-> TRUE, tried |-> FALSE, failed |-> FALSE,
                opened |-> FALSE, n |-> 0]
NoSizeRollingFile == [st |-> "new", limitedSize |-> 0, file |-> Nil,
                      currentSize |-> 0, opened |-> 0, requested |-> 0,
                      whole |-> TRUE, writes |-> 0, last |-> NoSizeWrite]

Begun ==
  calls + Cardinality({t \in DOMAIN pc : pc[t] \in {"wLock", "cLock", "sLock"}})

\* ---------------------------------------------------------------- files
OpenHandles == {h \in DOMAIN handles : handles[h].open}

\* nextFilename: the time to the second, a random number, ".log"; the
\* replacement strategy offered to SetNameGenerator is one that ignores the
\* time and names one fixed path
NextName(gen, dir, now, r) ==
  IF gen = "default" THEN <<dir, now \div TicksPerSecond, r, ".log">>
  ELSE <<dir, "custom">>

\* (*os.File).Write on handle h: a nil handle and a closed handle refuse,
\* an open handle writes n of the len bytes and reports an error iff n < len
FileWriteResults(h, len) ==
  IF h = Nil THEN {<<0, "ErrInvalid">>}
  ELSE IF ~handles[h].open THEN {<<0, "ErrClosed">>}
  ELSE {<<n, IF n = len THEN "nil" ELSE "EIO">> : n \in 0..len}

\* (*os.File).Close on handle h
FileCloseResults(h) ==
  IF h = Nil THEN {"ErrInvalid"}
  ELSE IF ~handles[h].open THEN {"ErrClosed"}
  ELSE {"nil", "EIO"}

\* a close that releases nothing
NotClosed(h) == handles

\* the handles after closing h (the descriptor is released whatever close reports)
Closed(h) ==
  IF h = Nil THEN handles ELSE [handles EXCEPT ![h].open = FALSE]

\* ---------------------------------------------------------------- mutex
\* a lock that excludes nobody
MuFreeBroken == TRUE

\* drf.mu.Lock() goes through when nobody holds the mutex
MuFree == mu = Nil

\* a return that leaves the mutex held
StillLocked(t) == mu

\* the deferred drf.mu.Unlock(), run on every return
Unlocked(t) == Nil

\* ---------------------------------------------------------------- construction
\* a floor that only refuses a duration of zero
TooShortLax(d) == d < 1

\* duration < minDuration
TooShort(d) == d < minDuration

NewDurationRollingFile(d) ==
  /\ st = "new"
  /\ duration' = d
  /\ IF TooShort(d)
       THEN /\ st' = "panicked"
            /\ UNCHANGED <<file, directory, lastTime, nameGenerator, mu>>
       ELSE /\ st' = "ready"
            /\ file' = Nil
            /\ directory' = "D"
            /\ lastTime' = ZeroTime
            /\ nameGenerator' = "default"
            /\ mu' = Nil
  /\ UNCHANGED <<clock, handles, fs, pc, call, calls, ret, failedAt>>
  /\ UNCHANGED aux

\* ---------------------------------------------------------------- Write
WriteCall(t) ==
  /\ st = "ready" /\ pc[t] = "idle" /\ Begun < MaxCalls
  /\ pc' = [pc EXCEPT ![t] = "wLock"]
  /\ call' = [call EXCEPT ![t] = [NoCall EXCEPT !.op = "Write"]]
  /\ UNCHANGED <<st, writer, mu, clock, handles, fs, calls, ret, failedAt>>
  /\ UNCHANGED aux

\* drf.mu.Lock()
WriteLock(t) ==
  /\ pc[t] = "wLock" /\ MuFree
  /\ mu' = t
  /\ calls' = calls + 1
  /\ call' = [call EXCEPT ![t].id = calls + 1]
  /\ pc' = [pc EXCEPT ![t] = "wEnsure"]
  /\ UNCHANGED <<st, writer, clock, handles, fs, ret, failedAt>>
  /\ UNCHANGED aux

\* the comparison made one tick too early
MustRollEarly(now) == file = Nil \/ now - lastTime >= duration - 1

\* the comparison made strict
MustRollStrict(now) == file = Nil \/ now - lastTime > duration

\* now.Sub(drf.lastTime) >= drf.duration, or no file yet
MustRoll(now) == file = Nil \/ now - lastTime >= duration

\* a failed creation that also puts off the next attempt by a duration
CreateFailedBackoff(t, c) ==
  /\ call' = [call EXCEPT ![t] = [c EXCEPT !.attempted = TRUE, !.failed = TRUE]]
  /\ failedAt' = c.now
  /\ lastTime' = c.now
  /\ pc' = [pc EXCEPT ![t] = "wWrite"]
  /\ UNCHANGED <<file, handles, fs>>

\* rollingToNextFile when CreateFileOf fails: return, nothing else
CreateFailed(t, c) ==
  /\ call' = [call EXCEPT ![t] = [c EXCEPT !.attempted = TRUE, !.failed = TRUE]]
  /\ failedAt' = c.now
  /\ pc' = [pc EXCEPT ![t] = "wWrite"]
  /\ UNCHANGED <<file, lastTime, handles, fs>>

\* the file system after CreateFileOf(name): the file exists, and a file
\* that existed keeps its content
CreateFileOf(name) ==
  IF name \in DOMAIN fs THEN fs ELSE fs @@ (name :> <<>>)

\* rollingToNextFile when CreateFileOf succeeds: newFile is open
Created(t, c, r) ==
  LET name == NextName(nameGenerator, directory, c.now, r)
  IN /\ handles' = Append(handles, [name |-> name, open |-> TRUE, at |-> c.now,
                                    gen |-> nameGenerator, from |-> file])
     /\ fs' = CreateFileOf(name)
     /\ call' = [call EXCEPT ![t] = [c EXCEPT !.attempted = TRUE,
                                              !.newFile = Len(handles) + 1]]
     /\ pc' = [pc EXCEPT ![t] = "wRoll"]
     /\ UNCHANGED <<file, lastTime, failedAt>>

\* ensureFileIsCorrect up to CreateFileOf in rollingToNextFile
WriteEnsure(t) ==
  /\ pc[t] = "wEnsure"
  /\ LET now == clock
         c == [call[t] EXCEPT !.now = now, !.before = file,
                 !.openBefore = (file # Nil /\ handles[file].open),
                 !.lastBefore = lastTime, !.retryOf = failedAt,
                 !.checked = file]
     IN IF MustRoll(now)
          THEN \/ CreateFailed(t, c)
               \/ \E r \in 0..(RandRange - 1) : Created(t, c, r)
          ELSE /\ call' = [call EXCEPT ![t] = c]
               /\ pc' = [pc EXCEPT ![t] = "wWrite"]
               /\ UNCHANGED <<file, lastTime, handles, fs, failedAt>>
  /\ UNCHANGED <<st, directory, duration, nameGenerator, mu, clock, calls, ret>>
  /\ UNCHANGED aux

\* a rotation that gives up when closing the old file reports an error
InstalledIfClosed(t, e) == IF e = "nil" THEN call[t].newFile ELSE file

\* drf.file = newFile, whatever drf.file.Close() returned (e)
Installed(t, e) == call[t].newFile

\* the rest of rollingToNextFile: close the old file, install the new one
WriteRoll(t) ==
  /\ pc[t] = "wRoll"
  /\ \E e \in FileCloseResults(file) :
       /\ file' = Installed(t, e)
       /\ call' = [call EXCEPT ![t].checked = call[t].newFile, ![t].closeErr = e]
  /\ handles' = Closed(file)
  /\ lastTime' = call[t].now
  /\ failedAt' = NoTime
  /\ pc' = [pc EXCEPT ![t] = "wWrite"]
  /\ UNCHANGED <<st, directory, duration, nameGenerator, mu, clock, fs, calls, ret>>
  /\ UNCHANGED aux

\* a Write that reports every payload as written in full
WriteReturnAll(res) == <<PayloadLen, "nil">>

\* what Write hands back of the handle's result <<n, err>>
WriteReturn(res) == res

\* return drf.file.Write(p), and the deferred Unlock
WriteFile(t) ==
  /\ pc[t] = "wWrite"
  /\ \E res \in FileWriteResults(file, PayloadLen) :
       /\ fs' = IF file # Nil /\ handles[file].open
                  THEN [fs EXCEPT ![handles[file].name] =
                          Append(@, [id |-> call[t].id, n |-> res[1], h |-> file])]
                  ELSE fs
       /\ ret' = [op |-> "Write", id |-> call[t].id,
                  attempted |-> call[t].attempted, failed |-> call[t].failed,
                  before |-> call[t].before,
                  h |-> file, n |-> WriteReturn(res)[1],
                  err |-> WriteReturn(res)[2], hn |-> res[1], herr |-> res[2],
                  closeErr |-> call[t].closeErr]
  /\ call' = [call EXCEPT ![t] = NoCall]
  /\ mu' = Unlocked(t)
  /\ pc' = [pc EXCEPT ![t] = "idle"]
  /\ UNCHANGED <<st, writer, clock, handles, calls, failedAt>>
  /\ UNCHANGED aux

\* ---------------------------------------------------------------- Close
CloseCall(t) ==
  /\ st = "ready" /\ pc[t] = "idle" /\ Begun < MaxCalls
  /\ pc' = [pc EXCEPT ![t] = "cLock"]
  /\ call' = [call EXCEPT ![t] = [NoCall EXCEPT !.op = "Close"]]
  /\ UNCHANGED <<st, writer, mu, clock, handles, fs, calls, ret, failedAt>>
  /\ UNCHANGED aux

\* drf.mu.Lock()
CloseLock(t) ==
  /\ pc[t] = "cLock" /\ MuFree
  /\ mu' = t
  /\ calls' = calls + 1
  /\ call' = [call EXCEPT ![t].id = calls + 1]
  /\ pc' = [pc EXCEPT ![t] = "cClose"]
  /\ UNCHANGED <<st, writer, clock, handles, fs, ret, failedAt>>
  /\ UNCHANGED aux

\* a Close that reports success whatever the handle says
CloseReturnNil(e) == "nil"

\* what Close hands back of the handle's close error
CloseReturn(e) == e

\* return drf.file.Close(), and the deferred Unlock
CloseFile(t) ==
  /\ pc[t] = "cClose"
  /\ \E e \in FileCloseResults(file) :
       ret' = [NoRet EXCEPT !.op = "Close", !.id = call[t].id, !.h = file,
                            !.err = CloseReturn(e), !.herr = e]
  /\ handles' = Closed(file)
  /\ call' = [call EXCEPT ![t] = NoCall]
  /\ mu' = Unlocked(t)
  /\ pc' = [pc EXCEPT ![t] = "idle"]
  /\ UNCHANGED <<st, writer, clock, fs, calls, failedAt>>
  /\ UNCHANGED aux

\* ---------------------------------------------------------------- SetNameGenerator
SetCall(t, g) ==
  /\ st = "ready" /\ pc[t] = "idle" /\ Begun < MaxCalls
  /\ pc' = [pc EXCEPT ![t] = "sLock"]
  /\ call' = [call EXCEPT ![t] = [NoCall EXCEPT !.op = "Set", !.gen = g]]
  /\ UNCHANGED <<st, writer, mu, clock, handles, fs, calls, ret, failedAt>>
  /\ UNCHANGED aux

\* drf.mu.Lock()
SetLock(t) ==
  /\ pc[t] = "sLock" /\ MuFree
  /\ mu' = t
  /\ calls' = calls + 1
  /\ call' = [call EXCEPT ![t].id = calls + 1]
  /\ pc' = [pc EXCEPT ![t] = "sSet"]
  /\ UNCHANGED <<st, writer, clock, handles, fs, ret, failedAt>>
  /\ UNCHANGED aux

\* a SetNameGenerator that keeps the old strategy
KeepGenerator(t) == nameGenerator

\* the strategy SetNameGenerator installs: its argument
NewGenerator(t) == call[t].gen

\* drf.nameGenerator = newNameGenerator, and the deferred Unlock
SetNameGenerator(t) ==
  /\ pc[t] = "sSet"
  /\ nameGenerator' = NewGenerator(t)
  /\ ret' = [NoRet EXCEPT !.op = "Set", !.id = call[t].id, !.h = file]
  /\ call' = [call EXCEPT ![t] = NoCall]
  /\ mu' = Unlocked(t)
  /\ pc' = [pc EXCEPT ![t] = "idle"]
  /\ UNCHANGED <<st, file, directory, lastTime, duration, clock, handles, fs,
                 calls, failedAt>>
  /\ UNCHANGED aux

\* ---------------------------------------------------------------- the clock
\* Time passes. ensureFileIsCorrect is the only reader of the clock, so time
\* is let pass where it can be seen: while a Write is about to read it.
\* a timer that moves the rotation time on by itself once a duration is over
TickRolling ==
  /\ clock < MaxTime
  /\ \E t \in Threads : pc[t] = "wEnsure"
  /\ clock' = clock + 1
  /\ lastTime' = IF file # Nil /\ clock + 1 - lastTime >= duration
                   THEN clock + 1 ELSE lastTime
  /\ UNCHANGED <<st, file, directory, duration, nameGenerator, mu, handles, fs,
                 pc, call, calls, ret, failedAt>>
  /\ UNCHANGED aux

Tick ==
  /\ clock < MaxTime
  /\ \E t \in Threads : pc[t] = "wEnsure"
  /\ clock' = clock + 1
  /\ UNCHANGED <<st, writer, mu, handles, fs, pc, call, calls, ret, failedAt>>
  /\ UNCHANGED aux

\* ---------------------------------------------------------------- specification
Init ==
  /\ st = "new"
  /\ file = Nil
  /\ directory = "D"
  /\ lastTime = ZeroTime
  /\ duration = 0
  /\ nameGenerator = "default"
  /\ mu = Nil
  /\ clock = 0
  /\ handles = <<>>
  /\ fs = <<>>
  /\ pc = [t \in Threads |-> "idle"]
  /\ call = [t \in Threads |-> NoCall]
  /\ calls = 0
  /\ ret = NoRet
  /\ failedAt = NoTime
  /\ made = <<>>
  /\ srf = NoSizeRollingFile

Next ==
  \/ \E d \in 0..MaxDuration : NewDurationRollingFile(d)
  \/ \E t \in Threads : WriteCall(t)
  \/ \E t \in Threads : WriteLock(t)
  \/ \E t \in Threads : WriteEnsure(t)
  \/ \E t \in Threads : WriteRoll(t)
  \/ \E t \in Threads : WriteFile(t)
  \/ \E t \in Threads : CloseCall(t)
  \/ \E t \in Threads : CloseLock(t)
  \/ \E t \in Threads : CloseFile(t)
  \/ \E t \in Threads, g \in Generators : SetCall(t, g)
  \/ \E t \in Threads : SetLock(t)
  \/ \E t \in Threads : SetNameGenerator(t)
  \/ Tick

Spec == Init /\ [][Next]_vars

\* A goroutine that is inside a call keeps running: the steps it takes while
\* it holds the mutex are weakly fair.  A goroutine blocked in Lock goes on
\* once the mutex stays free; that much is all that is assumed of Lock
\* (sync.Mutex promises more: it hands the lock to a waiter that has been
\* starved).  Beginning a call and the passing of time are not forced.
Running(t) ==
  \/ WriteEnsure(t) \/ WriteRoll(t) \/ WriteFile(t)
  \/ CloseFile(t) \/ SetNameGenerator(t)
Locking(t) == WriteLock(t) \/ CloseLock(t) \/ SetLock(t)

Fairness == \A t \in Threads : WF_vars(Running(t)) /\ WF_vars(Locking(t))

\* the runs of at most MaxLiveCalls calls
LiveNext == Next /\ Begun' <= MaxLiveCalls

LiveSpec == Init /\ [][LiveNext]_vars /\ Fairness

\* ---------------------------------------------------------------- nextFilename
\* nextFilename on its own: any caller, any directory, any time, any draw of
\* random.Intn
Directories == {"D", "E"}

Generate(dir, now, r) ==
  /\ Len(made) < MaxCalls
  /\ made' = Append(made, [dir |-> dir, now |-> now, r |-> r,
                           name |-> NextName("default", dir, now, r)])
  /\ UNCHANGED <<st, writer, mu, clock, handles, fs, pc, call, calls, ret, failedAt, srf>>

NameNext ==
  \E dir \in Directories, now \in 0..MaxTime, r \in 0..(RandRange - 1) :
    Generate(dir, now, r)

NameSpec == Init /\ [][NameNext]_vars

\* ---------------------------------------------------------------- size rolling
\* The size rolling writer, one goroutine at a time (each Write runs under
\* the writer's lock).  Sizes are counted in units of 32 KB.
\* minLimitedSize = 64 KB
minLimitedSize == 2

\* the constructor refuses a limit under the floor
NewSizeRollingFile(limit) ==
  /\ srf.st = "new"
  /\ srf' = IF limit < minLimitedSize
              THEN [srf EXCEPT !.st = "panicked"]
              ELSE [srf EXCEPT !.st = "ready", !.limitedSize = limit]
  /\ UNCHANGED <<st, writer, mu, clock, handles, fs, pc, call, calls, ret, failedAt, made>>

\* the rotation check, made before the write
SizeMustRollAfter(len) ==
  srf.file = Nil \/ srf.currentSize >= srf.limitedSize
SizeMustRoll(len) ==
  srf.file = Nil \/ srf.currentSize + len > srf.limitedSize

\* the counter after a write that wrote n bytes
Counted(size, len, n) == size + n

\* Write(p) with len(p) = len: the check, the rotation if it is due and the
\* file can be created (ok), then the write, of which n bytes arrive
SizeWrite(len, ok, n) ==
  /\ srf.st = "ready"
  /\ srf.writes < MaxCalls
  /\ LET tried == SizeMustRoll(len)
         opens == tried /\ ok
         f == IF opens THEN srf.opened + 1 ELSE srf.file
         size == IF opens THEN 0 ELSE srf.currentSize
         req == IF opens THEN 0 ELSE srf.requested
         wh == IF opens THEN TRUE ELSE srf.whole
     IN /\ (~tried) => ok
        /\ f = Nil => n = 0
        /\ srf' = [srf EXCEPT
                     !.file = f,
                     !.opened = IF opens THEN @ + 1 ELSE @,
                     !.currentSize = Counted(size, len, n),
                     !.requested = req + len,
                     !.whole = wh /\ n = len,
                     !.writes = @ + 1,
                     !.last = [len |-> len, before |-> srf.file,
                               size |-> srf.currentSize,
                               requested |-> srf.requested,
                               whole |-> srf.whole,
                               tried |-> tried, failed |-> tried /\ ~ok,
                               opened |-> opens, n |-> n]]
  /\ UNCHANGED <<st, writer, mu, clock, handles, fs, pc, call, calls, ret, failedAt, made>>

SizeNext ==
  \/ \E limit \in 1..MaxLimit : NewSizeRollingFile(limit)
  \/ \E len \in 1..MaxLen, ok \in BOOLEAN, n \in 0..MaxLen :
       n <= len /\ SizeWrite(len, ok, n)

SizeSpec == Init /\ [][SizeNext]_vars

\* ---------------------------------------------------------------- properties
\* goroutines that have made their rotation check and not yet returned
Checked == {t \in Threads : pc[t] \in {"wRoll", "wWrite"}}

\* every <<path, position>> of a record on disk, and those of call id
Positions == UNION {{<<nm, i>> : i \in DOMAIN fs[nm]} : nm \in DOMAIN fs}
RecordsOf(id) == {pos \in Positions : fs[pos[1]][pos[2]].id = id}

\* C1: one rotation per threshold crossing. Any two files the writer created
\* are at least duration apart; a Write that finds a file younger than
\* duration creates nothing and keeps it; a Write that finds the threshold
\* crossed, and whose creation succeeds, installs its new file with lastTime
\* set to its observed time.
C1_OneRotationPerCrossing ==
  /\ \A i, j \in DOMAIN handles :
       i < j => handles[j].at - handles[i].at >= duration
  /\ \A t \in Checked :
       /\ (call[t].before # Nil /\ call[t].now - call[t].lastBefore < duration)
            => /\ call[t].newFile = Nil
               /\ pc[t] = "wWrite"
               /\ file = call[t].before
               /\ lastTime = call[t].lastBefore
       /\ (call[t].before # Nil /\ call[t].now - call[t].lastBefore >= duration
            /\ ~call[t].failed /\ pc[t] = "wWrite")
            => /\ file = call[t].newFile
               /\ handles[file].from = call[t].before
               /\ lastTime = call[t].now

\* the Write that returned last rotated from an earlier file to the active
\* one, and the next Write, observing a time past the same crossing, is about
\* to write to that file without having rotated
C1_Witness ==
  \E t \in Threads :
    /\ pc[t] = "wWrite" /\ ~call[t].attempted
    /\ call[t].id = ret.id + 1
    /\ ret.op = "Write" /\ ret.attempted /\ ~ret.failed /\ ret.h = file
    /\ file # Nil /\ handles[file].from # Nil
    /\ call[t].now >= handles[file].at

\* C2: a payload goes to one file, the active one after the call's check.
\* Between a call's check and its write the active file does not change;
\* every record lies in the file of the handle it was written through, no
\* call has records in two places, and the records of a file are in the
\* order of the calls.
C2_WriteToCheckedFile ==
  /\ \A t \in Threads : pc[t] = "wWrite" => file = call[t].checked
  /\ \A nm \in DOMAIN fs : \A i \in DOMAIN fs[nm] :
       /\ fs[nm][i].h \in DOMAIN handles
       /\ handles[fs[nm][i].h].name = nm
       /\ \A j \in DOMAIN fs[nm] : i < j => fs[nm][i].id < fs[nm][j].id
  /\ \A p1, p2 \in Positions :
       fs[p1[1]][p1[2]].id = fs[p2[1]][p2[2]].id => p1 = p2
  /\ (ret.op = "Write" /\ ret.herr \in {"nil", "EIO"}
      /\ \A h \in DOMAIN handles : handles[h].name = handles[ret.h].name => h = ret.h)
       => \E pos \in RecordsOf(ret.id) :
            /\ pos[1] = handles[ret.h].name
            /\ fs[pos[1]][pos[2]].h = ret.h

\* an earlier call's payload lies in the first file, a later call's in a
\* second file of another name, after a rotation
C2_Witness ==
  /\ Len(handles) >= 2
  /\ handles[1].name # handles[2].name
  /\ \E i \in DOMAIN fs[handles[1].name], j \in DOMAIN fs[handles[2].name] :
       /\ fs[handles[1].name][i].h = 1
       /\ fs[handles[2].name][j].h = 2
       /\ fs[handles[1].name][i].id < fs[handles[2].name][j].id

\* C3 as stated: at most one open handle in every reachable state
C3_AtMostOneOpen == Cardinality(OpenHandles) <= 1

\* C3, amended: at most one handle is open except while a Write is inside
\* rollingToNextFile between creating the new file and closing the old one,
\* where the new file and at most the old one are open; never more than two.
C3_AtMostOneOpenOutsideRoll ==
  /\ (\A t \in Threads : pc[t] # "wRoll") =>
        /\ Cardinality(OpenHandles) <= 1
        /\ OpenHandles \subseteq {file}
  /\ \A t \in Threads : pc[t] = "wRoll" =>
        /\ call[t].newFile \in OpenHandles
        /\ OpenHandles \subseteq {file, call[t].newFile}

\* a rotation has replaced an open file: the old handle is closed and only
\* the new one is open
C3_Witness ==
  /\ Len(handles) >= 2
  /\ (\A t \in Threads : pc[t] # "wRoll")
  /\ OpenHandles = {file}
  /\ handles[file].from # Nil

\* C4: a Write attempts a rotation exactly when it finds no file or
\* now - lastTime >= duration; an attempt whose creation succeeds moves the
\* Write to a new file, and a Write without an attempt stays on its file.
C4_RotationTrigger ==
  \A t \in Checked :
    /\ call[t].attempted
         <=> (call[t].before = Nil \/ call[t].now - call[t].lastBefore >= duration)
    /\ pc[t] = "wWrite" =>
         /\ (call[t].attempted /\ ~call[t].failed)
              => file = call[t].newFile /\ file # call[t].before
         /\ ~call[t].attempted => file = call[t].before

\* duration one second; the file was created at t = 0 and a Write observing
\* t = 1.5 s has moved to a second file
C4_Witness ==
  \E t \in Threads :
    /\ pc[t] = "wWrite" /\ duration = TicksPerSecond
    /\ call[t].before # Nil /\ call[t].lastBefore = 0 /\ call[t].now = 3
    /\ call[t].attempted /\ file # call[t].before

\* C5 as stated: a Write during which file creation failed returns no error
\* that the failed creation caused. ErrInvalid is what a nil *os.File
\* reports: the writer has no file because no creation has succeeded yet.
C5_FailureNotSurfaced ==
  (ret.op = "Write" /\ ret.failed) => ret.err # "ErrInvalid"

\* C6: a failed creation changes nothing. The Write that met it still has
\* the file it found, as open as it found it, and the old lastTime, and has
\* created no handle; it writes through that same handle, and what the
\* open handle accepted lies in that handle's file.
C6_FailedCreationKeepsState ==
  /\ \A t \in Threads : (pc[t] = "wWrite" /\ call[t].failed) =>
       /\ file = call[t].before
       /\ lastTime = call[t].lastBefore
       /\ call[t].newFile = Nil
       /\ file # Nil => handles[file].open = call[t].openBefore
  /\ (ret.op = "Write" /\ ret.failed) =>
       /\ ret.h = ret.before
       /\ ret.herr \in {"nil", "EIO"} =>
            \E pos \in RecordsOf(ret.id) :
              /\ fs[pos[1]][pos[2]].h = ret.before
              /\ fs[pos[1]][pos[2]].n = ret.n
              /\ pos[1] = handles[ret.before].name

\* a Write whose rotation attempt failed has written its whole payload to
\* the file that was active before
C6_Witness ==
  /\ ret.op = "Write" /\ ret.failed /\ ret.before # Nil
  /\ ret.h = ret.before /\ ret.n = PayloadLen /\ ret.err = "nil"
  /\ \E pos \in RecordsOf(ret.id) : fs[pos[1]][pos[2]].h = ret.before

C8_WriteResultVerbatim ==
  ret.op = "Write" =>
    /\ ret.n = ret.hn /\ ret.err = ret.herr
    /\ Cardinality(RecordsOf(ret.id)) <= 1
    /\ \A pos \in RecordsOf(ret.id) :
         /\ fs[pos[1]][pos[2]].n = ret.n
         /\ ret.err = IF ret.n = PayloadLen THEN "nil" ELSE "EIO"
    /\ RecordsOf(ret.id) = {} => ret.n = 0 /\ ret.err \in {"ErrInvalid", "ErrClosed"}

\* a short write: fewer bytes than the payload, with the handle's I/O error
C8_Witness ==
  /\ ret.op = "Write" /\ ret.err = "EIO" /\ ret.n < PayloadLen
  /\ \E pos \in RecordsOf(ret.id) : fs[pos[1]][pos[2]].n = ret.n

\* C9: SetNameGenerator installs its argument and touches nothing else of
\* the writer or the files; a file is created under the strategy in force
\* at that moment; a write changes only the file of the active handle.
C9_SetNameGeneratorFrame ==
  [][/\ \A t \in Threads : (pc[t] = "sSet" /\ pc'[t] = "idle") =>
          /\ nameGenerator' = call[t].gen
          /\ UNCHANGED <<file, directory, lastTime, duration, handles, fs>>
     /\ Len(handles') > Len(handles) =>
          /\ handles'[Len(handles')].gen = nameGenerator
          /\ \E r \in 0..(RandRange - 1) :
               handles'[Len(handles')].name =
                 NextName(nameGenerator, directory, clock, r)
     /\ \A nm \in DOMAIN fs :
          fs'[nm] # fs[nm] => file # Nil /\ handles[file].name = nm
    ]_vars

\* the first file was named by the default strategy, the strategy was then
\* replaced, and the next rotation named its file by the replacement
C9_Witness ==
  /\ Len(handles) >= 2
  /\ handles[1].gen = "default" /\ handles[2].gen = "custom"
  /\ handles[2].from = 1
  /\ nameGenerator = "custom"

\* C10: construction panics exactly for a duration below minDuration, and a
\* panicked or fresh writer has opened nothing: no handle, no file on disk,
\* drf.file nil, until a call has taken the lock. A Write that finds no
\* file attempts to create one, and the one it creates is the first file.
C10_ConstructionOpensNothing ==
  /\ st = "panicked" <=> (st # "new" /\ duration < minDuration)
  /\ st \in {"new", "panicked"} => calls = 0
  /\ calls = 0 => handles = <<>> /\ fs = <<>> /\ file = Nil
  /\ (ret.op = "Write" /\ ret.before = Nil) =>
       /\ ret.attempted
       /\ ~ret.failed => ret.h # Nil /\ handles[ret.h].from = Nil

\* construction with half a second has panicked
C10_Witness ==
  /\ st = "panicked" /\ duration > 0 /\ duration < minDuration
  /\ handles = <<>> /\ file = Nil

\* C11: Close makes one close on the active handle, open, closed or nil, and
\* returns that close's error as it is; afterwards the handle is closed, and
\* drf.file, lastTime, duration, directory, the name generator and the files
\* on disk are as before.
C11_CloseReturnsHandleError ==
  [][\A t \in Threads : (pc[t] = "cClose" /\ pc'[t] = "idle") =>
        /\ ret'.op = "Close" /\ ret'.h = file
        /\ ret'.herr \in FileCloseResults(file)
        /\ ret'.err = ret'.herr
        /\ file = Nil => ret'.err = "ErrInvalid" /\ handles' = handles
        /\ file # Nil =>
             /\ ~handles'[file].open
             /\ handles[file].open <=> ret'.err \in {"nil", "EIO"}
             /\ \A h \in DOMAIN handles : h # file => handles'[h] = handles[h]
        /\ UNCHANGED <<file, lastTime, duration, directory, nameGenerator, fs>>
    ]_vars

\* a second Close has returned the error of the already closed handle
C11_Witness ==
  /\ ret.op = "Close" /\ ret.err = "ErrClosed"
  /\ ret.h = file /\ file # Nil /\ ~handles[file].open

\* C12 as stated: two names the default generator produced for one
\* directory are different
C12_NamesDiffer ==
  \A i, j \in DOMAIN made :
    (i # j /\ made[i].dir = made[j].dir) => made[i].name # made[j].name

\* C13 as stated: the check is counter + len > threshold, the counter
\* grows by the bytes written and a rotation resets it, and a Write of a
\* writer that has a file opens a new one exactly when the sizes of the
\* Writes since the last opening (each written whole), this one included,
\* cross the threshold
C13_OpenedExactlyAtCrossing ==
  (srf.writes > 0 /\ srf.last.before # Nil) =>
    /\ srf.last.tried <=> srf.last.size + srf.last.len > srf.limitedSize
    /\ srf.currentSize = (IF srf.last.opened THEN 0 ELSE srf.last.size) + srf.last.n
    /\ srf.last.whole =>
         (srf.last.opened <=> srf.last.requested + srf.last.len > srf.limitedSize)

\* C13 amended: the check, made before the write, is counter + len >
\* threshold (or no file yet); the counter grows by the bytes written and a
\* successful rotation resets it; the counter is the sizes of the Writes
\* since the last opening when each was written whole; and unless the
\* creation fails, which leaves file and counter as they were, a new file
\* is opened exactly at the Write that takes the counter over the threshold
C13_SizeRotation ==
  srf.writes > 0 =>
    /\ srf.last.tried <=>
         (srf.last.before = Nil \/ srf.last.size + srf.last.len > srf.limitedSize)
    /\ srf.last.opened <=> (srf.last.tried /\ ~srf.last.failed)
    /\ srf.last.opened => srf.file = srf.opened /\ srf.file # srf.last.before
    /\ ~srf.last.opened => srf.file = srf.last.before /\ srf.opened = srf.file
    /\ srf.currentSize = (IF srf.last.opened THEN 0 ELSE srf.last.size) + srf.last.n
    /\ srf.last.n <= srf.last.len
    /\ srf.last.whole => srf.last.requested = srf.last.size
    /\ (srf.last.before # Nil /\ srf.last.whole /\ ~srf.last.failed) =>
         (srf.last.opened <=> srf.last.requested + srf.last.len > srf.limitedSize)

\* the third Write of whole Writes is the first to cross the threshold, and
\* it opens the second file
C13_Witness ==
  /\ srf.writes = 3 /\ srf.opened = 2 /\ srf.last.opened
  /\ srf.last.whole /\ srf.last.requested > srf.last.len
  /\ srf.last.requested <= srf.limitedSize
  /\ srf.last.requested + srf.last.len > srf.limitedSize

\* C14: a Write whose rotation succeeded at time now has closed the handle
\* it found, whatever the close reported (ErrInvalid when there was none),
\* has the new handle, open, as the active file and lastTime = now when it
\* reaches its write; and it returns what the write to the new handle
\* reported, whatever the close reported
C14_SuccessfulRotation ==
  /\ \A t \in Threads :
       (pc[t] = "wWrite" /\ call[t].attempted /\ ~call[t].failed) =>
         /\ file = call[t].newFile /\ file # Nil /\ file # call[t].before
         /\ handles[file].open /\ handles[file].at = call[t].now
         /\ lastTime = call[t].now
         /\ OpenHandles = {file}
         /\ call[t].before = Nil <=> call[t].closeErr = "ErrInvalid"
         /\ call[t].openBefore <=> call[t].closeErr \in {"nil", "EIO"}
         /\ call[t].closeErr # "none"
  /\ (ret.op = "Write" /\ ret.attempted /\ ~ret.failed) =>
         /\ ret.closeErr # "none"
         /\ ret.h # Nil /\ ret.h # ret.before
         /\ handles[ret.h].from = ret.before
         /\ ret.herr \in {"nil", "EIO"}
         /\ ret.n = ret.hn /\ ret.err = ret.herr

\* a Write rotated, closing the old file failed, and the Write wrote its
\* payload to the new file and returned no error
C14_Witness ==
  /\ ret.op = "Write" /\ ret.attempted /\ ~ret.failed
  /\ ret.before # Nil /\ ret.closeErr = "EIO"
  /\ ret.n = PayloadLen /\ ret.err = "nil"
  /\ Len(fs[handles[ret.h].name]) > 0

\* the goroutines inside the critical section of Write, Close or
\* SetNameGenerator, and those waiting for the lock
InCritical == {t \in Threads : pc[t] \in {"wEnsure", "wRoll", "wWrite", "cClose", "sSet"}}
Waiting == {t \in Threads : pc[t] \in {"wLock", "cLock", "sLock"}}

\* C15: at most one goroutine is inside a critical section and it is the
\* holder of the mutex; a step that changes the active file, lastTime or
\* the name generator of the constructed writer, or that records what a
\* call read of them, is a step of the goroutine holding the mutex.
C15_OnlyUnderMutex ==
  /\ [](/\ Cardinality(InCritical) <= 1
        /\ \A t \in Threads : t \in InCritical <=> mu = t)
  /\ [][
        /\ (st = "ready" /\ <<file, lastTime, nameGenerator>>' # <<file, lastTime, nameGenerator>>)
             => \E h \in InCritical : mu = h /\ pc'[h] # pc[h]
        /\ \A t \in Threads :
             (call'[t] # call[t] /\ pc[t] \notin {"idle", "wLock", "cLock", "sLock"})
               => mu = t /\ mu' \in {t, Nil} /\ InCritical = {t}
        /\ \A t \in Threads :
             (pc[t] \in {"wLock", "cLock", "sLock"} /\ pc'[t] # pc[t])
               => mu = Nil /\ mu' = t /\ UNCHANGED writer
     ]_vars

\* one goroutine is in the middle of a rotation while the other waits for
\* the lock
C15_Witness ==
  \E t, u \in Threads :
    /\ t # u /\ mu = t /\ pc[t] = "wRoll" /\ file # Nil
    /\ u \in Waiting

\* C16: after construction the active file or lastTime changes, a handle is
\* opened or a file appears on disk only in a step of a Write between its
\* check and the end of its rotation; a step in which time passes, and every
\* step of Close and SetNameGenerator, leaves the active file, lastTime, the
\* number of handles and the files on disk as they were.
C16_RotationOnlyInWrite ==
  [][
      /\ (st = "ready" /\ (\/ file' # file
                           \/ lastTime' # lastTime
                           \/ Len(handles') # Len(handles)
                           \/ DOMAIN fs' # DOMAIN fs))
           => \E t \in Threads :
                /\ call[t].op = "Write"
                /\ pc[t] \in {"wEnsure", "wRoll"} /\ pc'[t] # pc[t]
      /\ clock' # clock => UNCHANGED <<file, lastTime, handles, fs, nameGenerator>>
      /\ \A t \in Threads :
           (call[t].op \in {"Close", "Set"} /\ pc'[t] # pc[t]) =>
             /\ file' = file /\ lastTime' = lastTime
             /\ Len(handles') = Len(handles)
             /\ fs' = fs
   ]_vars

\* a duration has passed since the rotation, SetNameGenerator has returned
\* meanwhile, and the first file is still the active one, still open
C16_Witness ==
  /\ ret.op = "Set"
  /\ file = 1 /\ Len(handles) = 1 /\ handles[1].open
  /\ clock - lastTime >= duration
  /\ lastTime = handles[1].at

\* C17: a goroutine that has returned does not hold the mutex (the mutex is
\* held only by a goroutine inside a call), and under fair scheduling every
\* goroutine that has begun a call of Write, Close or SetNameGenerator,
\* waiting for the lock or holding it, returns.
C17_EveryCallReturns ==
  /\ [](\A t \in Threads : pc[t] = "idle" => mu # t)
  /\ [](mu \in Threads \cup {Nil})
  /\ \A t \in Threads : (pc[t] # "idle") ~> (pc[t] = "idle")

\* a Write whose file creation failed has returned an error and released
\* the mutex, and the other goroutine, which waited meanwhile, holds it now
C17_Witness ==
  \E t \in Threads :
    /\ ret.op = "Write" /\ ret.failed /\ ret.err = "ErrInvalid"
    /\ mu = t /\ pc[t] \in {"cClose", "wEnsure", "sSet"}
    /\ call[t].id = ret.id + 1

\* C18: the clock never goes back and lastTime never decreases, nor runs
\* ahead of the clock; lastTime is the creation time of the active file;
\* each file but the first was rotated to from the file created just before
\* it, at least duration later, whatever creations failed in between and
\* whichever goroutines made the calls.
C18_RotationsSpaced ==
  /\ [](/\ lastTime <= clock
        /\ file # Nil => lastTime = handles[file].at
        /\ file = Nil => lastTime = ZeroTime /\ Len(handles) <= 1
        /\ \A h \in DOMAIN handles :
             /\ handles[h].from = h - 1
             /\ h > 1 => handles[h].at - handles[h - 1].at >= duration
             /\ h > 1 => handles[h].at - handles[h - 1].at >= minDuration)
  /\ [][clock' >= clock /\ lastTime' >= lastTime]_vars

\* a creation failed when the rotation was due, a later Write retried and
\* has rotated, more than duration after the previous rotation
C18_Witness ==
  \E t \in Threads :
    /\ pc[t] = "wWrite" /\ call[t].retryOf # NoTime
    /\ call[t].newFile = 2 /\ file = 2 /\ handles[2].from = 1
    /\ lastTime = call[t].now
    /\ lastTime - handles[1].at > duration

\* C19 as stated: once Close has returned, leaving the active handle
\* closed, no handle is open and no Write opens one: a Write that finds the
\* closed handle creates no file, keeps it and returns its error
C19_NothingOpensAfterClose ==
  /\ \A t \in Threads :
       (pc[t] \in {"wRoll", "wWrite"} /\ call[t].before # Nil /\ ~call[t].openBefore)
         => /\ call[t].newFile = Nil
            /\ OpenHandles = {}
            /\ file = call[t].before
  /\ (ret.op = "Write" /\ ret.before # Nil /\ ret.closeErr = "ErrClosed")
       => ret.h = ret.before /\ ret.err = "ErrClosed"

TypeOK ==
  /\ st \in {"new", "ready", "panicked"}
  /\ file \in 0..Len(handles)
  /\ mu \in {Nil} \cup Threads
  /\ clock \in 0..MaxTime
  /\ calls \in 0..MaxCalls
====
